---------------------------- MODULE Spec2Model ----------------------------
(***************************************************************************)
(* A model of ggrc.converters.query_helper.QueryHelper: the sanitizer run  *)
(* by the constructor (_clean_query), and get_ids, which resolves the      *)
(* entries of a query batch one after the other (_get_objects,             *)
(* _build_expression, _apply_order_by, _apply_limit).                      *)
(*                                                                         *)
(* Strings are sequences of character codes: the digits are 0..9, "/" is   *)
(* Slash, letters are the codes above it.  Storage, the permission checks, *)
(* the relationship helper and the similarity queries are collaborators    *)
(* outside query_helper.py; they are fixed, small tables here.             *)
(***************************************************************************)
EXTENDS Integers, Sequences, FiniteSets, TLC

\* ------------------------------------------------------------- bounds
\* Longest batch handed to the constructor.
MaxBatch == 2
\* Rows 1..NObj live in the table of every object class.
NObj == 4

\* --------------------------------------------------------- characters
Slash == 10

Digits == 0..9

\* ------------------------------------------------- sequence helpers
Max(a, b) == IF a > b THEN a ELSE b
Min(a, b) == IF a < b THEN a ELSE b

Range(s) == {s[i] : i \in 1..Len(s)}

\* The subsequence of s at the 1-based positions lo..hi (empty if lo > hi).
Sub(s, lo, hi) == [i \in 1..Max(0, hi - lo + 1) |-> s[lo + i - 1]]

\* The elements of s that satisfy Keep(_), in the order of s.
RECURSIVE FilterSeq(_, _)
FilterSeq(s, keepSet) ==
  IF s = <<>> THEN <<>>
  ELSE IF Head(s) \in keepSet
       THEN <<Head(s)>> \o FilterSeq(Tail(s), keepSet)
       ELSE FilterSeq(Tail(s), keepSet)

\* Lexicographic order on strings, as Python and SQL compare them.
RECURSIVE StrLess(_, _)
StrLess(a, b) ==
  IF b = <<>> THEN FALSE
  ELSE IF a = <<>> THEN TRUE
  ELSE IF Head(a) # Head(b) THEN Head(a) < Head(b)
  ELSE StrLess(Tail(a), Tail(b))

\* "%p%" pattern match: p occurs in s as a substring.
Contains(s, p) ==
  \E i \in 1..(Len(s) + 1) :
    /\ i + Len(p) - 1 <= Len(s)
    /\ Sub(s, i, i + Len(p) - 1) = p

\* str.split("/"): the parts of s between slashes (always at least one part).
RECURSIVE Split(_)
Split(s) ==
  IF \A i \in 1..Len(s) : s[i] # Slash THEN <<s>>
  ELSE LET k == CHOOSE i \in 1..Len(s) :
                  s[i] = Slash /\ \A j \in 1..(i - 1) : s[j] # Slash
       IN <<Sub(s, 1, k - 1)>> \o Split(Sub(s, k + 1, Len(s)))

\* int(s) succeeds on a non-empty string of digits.
IsNumeric(s) == s # <<>> /\ \A i \in 1..Len(s) : s[i] \in Digits

RECURSIVE IntOf(_)
IntOf(s) ==
  IF s = <<>> THEN 0
  ELSE 10 * IntOf(Sub(s, 1, Len(s) - 1)) + s[Len(s)]

\* ------------------------------------------------------ collaborators
\* get_exportables(): the classes a query may name.
ObjectMap == {"Program", "TaskGroupTask", "Assessment"}

\* object_class.query: the rows of a class, by id.
Table(object_class) == 1..NObj

\* The column values of row o ("title", "slug") as strings.
Title(o) == <<11 + ((o + 1) % NObj)>>
Slug(o) == <<30 + o>>

\* The person behind row o's "contact" relationship: name (may be empty)
\* and email.
ContactName(o) == IF o % 2 = 0 THEN <<>> ELSE <<50 + (NObj - o)>>
ContactEmail(o) == <<70 + o>>

\* The title of the audit behind row o's "audit" relationship.
AuditTitle(o) == <<90 + ((2 * o) % (NObj + 1))>>

\* What getattr(model, key, None) is: a plain column, a relationship to a
\* Titled model, to Person, to any other model, or None.
AttrKind(model, key) ==
  CASE key \in {"title", "slug"} -> "column"
    [] key = "audit" -> "titled"
    [] key = "contact" -> "person"
    [] key = "object_people" -> "other"
    [] key \in {"start_date", "end_date", "relative_start_day",
                "relative_start_month", "relative_end_day",
                "relative_end_month"} /\ model = "TaskGroupTask" -> "column"
    [] OTHER -> "none"

\* The value a row has in a plain column.
AttrValue(o, key) ==
  CASE key = "title" -> Title(o)
    [] key = "slug" -> Slug(o)
    [] key \in {"start_date", "end_date"} -> <<2020, 1 + (o % 12), o>>
    [] OTHER -> <<>>

\* str.lower() on the field names the inputs use.
Lower(name) ==
  CASE name = "Title" -> "title"
    [] name = "Code" -> "code"
    [] name = "__SIMILARITY__" -> "__similarity__"
    [] OTHER -> name

\* attr_name_map[model].get(key, (key, None))[0]: display name to attribute.
AttrNameMap(model, key) == IF key = "code" THEN "slug" ELSE key

\* permissions.is_allowed_read_for / is_allowed_update_for.
is_allowed_read_for(o) == o % 3 # 2
is_allowed_update_for(o) == o % 2 = 1

\* RelationshipHelper.get_ids_related_to(object_type, related_type, ids).
get_ids_related_to(object_type, related_type, related_ids) ==
  {o \in 1..NObj : \E r \in Range(related_ids) : (o + r) % 3 # 0}

\* Classes that define get_similar_objects_query.
HasSimilarity(similar_class) == similar_class = "Assessment"

\* The rows get_similar_objects_query(id_, types).all() returns, and the
\* weight of each.
SimilarIds(id_) == {o \in 1..NObj : o # id_ /\ (o + id_) % 4 # 0}
Weight(id_, o) == (o * 3 + id_) % (NObj + 1)

\* ---------------------------------------------------------- the input
\* A filter-expression leaf; a key the JSON leaves out has its default
\* here ("" for op and for left: the dict has no "op", no "left").
Leaf(op, left, right) ==
  [op |-> op, left |-> left, right |-> right, right_is_date |-> FALSE,
   object_name |-> "", ids |-> <<>>, id |-> 0, slugs |-> <<>>,
   text |-> <<>>]

RelevantLeaf(object_name, ids) ==
  [Leaf("relevant", "", <<>>) EXCEPT !.object_name = object_name, !.ids = ids]

SimilarLeaf(object_name, id) ==
  [Leaf("similar", "", <<>>) EXCEPT !.object_name = object_name, !.id = id]

\* A JSON null in a list of ids (the ids are strings otherwise).
None == <<-1>>

\* An AND/OR node.
Node(op, left, right) == [op |-> op, left |-> left, right |-> right, ids |-> <<>>]

IsNode(exp) == exp.op \in {"AND", "OR"}

\* object_query["filters"]: absent, a dict without "expression", or a dict
\* with one.
NoFilters == [kind |-> "absent", expression |-> Leaf("", "", <<>>)]
EmptyFilters == [kind |-> "empty", expression |-> Leaf("", "", <<>>)]
Filters(exp) == [kind |-> "expr", expression |-> exp]

\* object_query["limit"]: absent, or a JSON list of numbers, strings, nulls.
NoLimit == [present |-> FALSE, elems |-> <<>>]
Limit(elems) == [present |-> TRUE, elems |-> elems]
Num(n) == [kind |-> "int", val |-> n]
Text == [kind |-> "str", val |-> 0]
Null == [kind |-> "null", val |-> 0]

Clause(name, desc) == [name |-> name, desc |-> desc]

\* One Object Query.  permissions "" and has_ids FALSE stand for absent keys.
ObjectQuery(object_name, permissions, order_by, limit, filters) ==
  [object_name |-> object_name, permissions |-> permissions,
   order_by |-> order_by, limit |-> limit, filters |-> filters,
   fields |-> <<>>, has_ids |-> FALSE, ids |-> <<>>]

\* ------------------------------------------------------ the sanitizer
\* A set of ids as the list a storage query returns (ascending ids).
RECURSIVE SeqOfSet(_)
SeqOfSet(S) ==
  IF S = {} THEN <<>>
  ELSE LET m == CHOOSE x \in S : \A y \in S : x <= y
       IN <<m>> \o SeqOfSet(S \ {m})

_slugs_to_ids(object_name, slugs) ==
  IF object_name \notin ObjectMap THEN <<>>
  ELSE SeqOfSet({o \in Table(object_name) : Slug(o) \in Range(slugs)})

\* The first id of the list int() raises on.
FirstBadId(ids) ==
  ids[CHOOSE i \in 1..Len(ids) :
        ~IsNumeric(ids[i]) /\ \A k \in 1..(i - 1) : IsNumeric(ids[k])]

\* What the constructor raises when int(id_) raises: int(None) raises
\* TypeError, which `except ValueError` does not catch; the ValueError of a
\* string is turned into BadQueryException on a "relevant" dict only.
CoercionError(op, id_) ==
  IF id_ = None THEN "TypeError"
  ELSE IF op = "relevant" THEN "BadQuery" ELSE "ValueError"

\* int(id_) for every id of the dict, after the ids of its slugs were
\* appended: [err, ids].
CleanIdsWith(exp, found) ==
  IF \A i \in 1..Len(exp.ids) : IsNumeric(exp.ids[i])
  THEN [err |-> "",
        ids |-> [i \in 1..Len(exp.ids) |-> IntOf(exp.ids[i])] \o found]
  ELSE [err |-> CoercionError(exp.op, FirstBadId(exp.ids)), ids |-> <<>>]

CleanIds(exp) ==
  CleanIdsWith(exp, IF IsNode(exp) \/ exp.slugs = <<>> THEN <<>>
                    ELSE _slugs_to_ids(exp.object_name, exp.slugs))

\* The dict with its cleaned parts put back, or the first error met.
CleanedNode(expression, own, l, r) ==
  IF l.err # "" THEN [err |-> l.err, exp |-> expression]
  ELSE IF r.err # "" THEN [err |-> r.err, exp |-> expression]
  ELSE [err |-> "",
        exp |-> [expression EXCEPT !.ids = own.ids, !.left = l.exp,
                                   !.right = r.exp]]

RECURSIVE _clean_filters(_)
CleanedWith(expression, own) ==
  IF own.err # "" THEN [err |-> own.err, exp |-> expression]
  ELSE IF ~IsNode(expression)
  THEN [err |-> "", exp |-> [expression EXCEPT !.ids = own.ids]]
  ELSE CleanedNode(expression, own, _clean_filters(expression.left),
                   _clean_filters(expression.right))

\* _clean_filters: [err, exp].  A dict without "op" is the empty dict here,
\* which the first test returns on.
_clean_filters(expression) ==
  IF expression.op = "" THEN [err |-> "", exp |-> expression]
  ELSE CleanedWith(expression, CleanIds(expression))

RECURSIVE _expression_keys(_)
_expression_keys(exp) ==
  IF IsNode(exp)
  THEN _expression_keys(exp.left) \cup _expression_keys(exp.right)
  ELSE IF exp.op = "" \/ exp.left = "" THEN {} ELSE {exp.left}

\* datetime.date(year, month, day) accepts the triple.
IsLeap(year) == year % 4 = 0 /\ (year % 100 # 0 \/ year % 400 = 0)
DaysIn(year, month) ==
  CASE month = 2 -> IF IsLeap(year) THEN 29 ELSE 28
    [] month \in {4, 6, 9, 11} -> 30
    [] OTHER -> 31
IsDate(year, month, day) ==
  /\ year \in 1..9999
  /\ month \in 1..12
  /\ day \in 1..DaysIn(year, month)

DateField(key) == IF key = "start" THEN "start_date" ELSE "end_date"
RelativeMonth(key) ==
  IF key = "start" THEN "relative_start_month" ELSE "relative_end_month"
RelativeDay(key) ==
  IF key = "start" THEN "relative_start_day" ELSE "relative_end_day"

\* The leaf rewritten for the parts of its right value.
ExpandParts(exp, parts) ==
  CASE Len(parts) = 3 ->
         IF \E i \in 1..3 : ~IsNumeric(parts[i])
         THEN [err |-> "BadQuery", exp |-> exp]
         ELSE IF ~IsDate(IntOf(parts[3]), IntOf(parts[1]), IntOf(parts[2]))
         THEN [err |-> "ValueError", exp |-> exp]
         ELSE [err |-> "",
               exp |-> [exp EXCEPT
                          !.left = DateField(exp.left),
                          !.right = <<IntOf(parts[3]), IntOf(parts[1]),
                                      IntOf(parts[2])>>,
                          !.right_is_date = TRUE]]
    [] Len(parts) = 2 ->
         [err |-> "",
          exp |-> Node("AND",
                       Leaf(exp.op, RelativeMonth(exp.left), parts[1]),
                       Leaf(exp.op, RelativeDay(exp.left), parts[2]))]
    [] Len(parts) = 1 ->
         [err |-> "", exp |-> [exp EXCEPT !.left = RelativeDay(exp.left)]]
    [] OTHER -> [err |-> "BadQuery", exp |-> exp]

ExpandedNode(exp, l, r) ==
  IF l.err # "" THEN [err |-> l.err, exp |-> exp]
  ELSE IF r.err # "" THEN [err |-> r.err, exp |-> exp]
  ELSE [err |-> "", exp |-> [exp EXCEPT !.left = l.exp, !.right = r.exp]]

\* expand_task_dates: [err, exp].  The right subtree is not visited when the
\* left one raises.  exp["left"] raises KeyError on a dict without "left"
\* (left is "" here), as the relevant, similar and text_search dicts are.
RECURSIVE expand_task_dates(_)
expand_task_dates(exp) ==
  IF exp.op = "" THEN [err |-> "", exp |-> exp]
  ELSE IF IsNode(exp)
  THEN ExpandedNode(exp, expand_task_dates(exp.left),
                    expand_task_dates(exp.right))
  ELSE IF exp.left = "" THEN [err |-> "KeyError", exp |-> exp]
  ELSE IF exp.left \notin {"start", "end"} THEN [err |-> "", exp |-> exp]
  ELSE ExpandParts(exp, Split(exp.right))

\* _macro_expand_object_query: [err, exp] for the entry's filters.
_macro_expand_object_query(object_query) ==
  LET exp == object_query.filters.expression IN
  IF object_query.object_name # "TaskGroupTask"
       \/ object_query.filters.kind = "absent"
  THEN [err |-> "", exp |-> exp]
  ELSE IF object_query.filters.kind = "empty"
  THEN [err |-> "KeyError", exp |-> exp]
  ELSE IF _expression_keys(exp) \cap {"start", "end"} = {}
  THEN [err |-> "", exp |-> exp]
  ELSE expand_task_dates(exp)

\* One round of _clean_query's loop, the filters cleaned (c): [err, q].
Expanded(object_query, m) ==
  [err |-> m.err, q |-> [object_query EXCEPT !.filters.expression = m.exp]]

CleanedEntry(object_query, c) ==
  IF c.err # "" THEN [err |-> c.err, q |-> object_query]
  ELSE Expanded([object_query EXCEPT !.filters.expression = c.exp],
                _macro_expand_object_query(
                  [object_query EXCEPT !.filters.expression = c.exp]))

CleanEntry(object_query) ==
  CleanedEntry(object_query,
               IF object_query.filters.kind = "expr"
               THEN _clean_filters(object_query.filters.expression)
               ELSE [err |-> "", exp |-> object_query.filters.expression])

\* _clean_query over the batch, entry by entry, stopping at the first error:
\* [err, query], query being the batch as the loop left it.
RECURSIVE _clean_query(_)
CleanedFrom(h, rest) ==
  IF h.err # "" THEN [err |-> h.err, query |-> <<h.q>> \o rest]
  ELSE [err |-> _clean_query(rest).err,
        query |-> <<h.q>> \o _clean_query(rest).query]

_clean_query(query) ==
  IF query = <<>> THEN [err |-> "", query |-> <<>>]
  ELSE CleanedFrom(CleanEntry(Head(query)), Tail(query))

\* _set_attr_name_map: object_map[object_name] for every entry.
_set_attr_name_map(query) ==
  IF \E i \in 1..Len(query) : query[i].object_name \notin ObjectMap
  THEN "KeyError" ELSE ""

\* ------------------------------------------------ _build_expression
\* flask.g without similar_objects_query.
NoSimilar == [set |-> FALSE, similar_class |-> "", id |-> 0, type |-> ""]

\* What compiling an expression gives: the error raised (err), or the value
\* returned: None ("none"), a predicate ("pred", rows: the ids it holds of)
\* or an exception object ("exc"); with flask.g and the calls made to
\* RelationshipHelper.get_ids_related_to as compiling left them.
Compiled(err, kind, rows, g, log) ==
  [err |-> err, kind |-> kind, rows |-> rows, g |-> g, log |-> log]

\* The attribute names with "date" and without "relative" in them.
IsDateKey(key) == key \in {"start_date", "end_date"}

ParseDateUncaught(parts) ==
  IF Len(parts) # 3 \/ \E i \in 1..Len(parts) : ~IsNumeric(parts[i])
  THEN [err |-> "BadQuery", value |-> <<>>]
  ELSE IF IsDate(IntOf(parts[3]), IntOf(parts[1]), IntOf(parts[2]))
  THEN [err |-> "",
        value |-> <<IntOf(parts[3]), IntOf(parts[1]), IntOf(parts[2])>>]
  ELSE [err |-> "ValueError", value |-> <<>>]

\* The date a MM/DD/YYYY string stands for: [err, value].  int() and
\* datetime.date() are both inside the try.
ParseDate(parts) ==
  IF Len(parts) # 3 \/ \E i \in 1..Len(parts) : ~IsNumeric(parts[i])
  THEN [err |-> "BadQuery", value |-> <<>>]
  ELSE IF IsDate(IntOf(parts[3]), IntOf(parts[1]), IntOf(parts[2]))
  THEN [err |-> "",
        value |-> <<IntOf(parts[3]), IntOf(parts[1]), IntOf(parts[2])>>]
  ELSE [err |-> "BadQuery", value |-> <<>>]

\* autocast(o_key, value): [err, value].
autocast(object_class, exp) ==
  IF ~IsDateKey(AttrNameMap(object_class, exp.left)) \/ exp.right_is_date
  THEN [err |-> "", value |-> exp.right]
  ELSE ParseDate(Split(exp.right))

\* The rows the comparison `op` of the leaf holds of.
CompareRows(op, object_class, key, value) ==
  LET all == Table(object_class)
      eq == {o \in all : AttrValue(o, key) = value}
      like == {o \in all : Contains(AttrValue(o, key), value)}
  IN CASE op = "=" -> eq
       [] op = "!=" -> all \ eq
       [] op = "~" -> like
       [] op = "!~" -> all \ like
       [] op = "<" -> {o \in all : StrLess(AttrValue(o, key), value)}
       [] op = ">" -> {o \in all : StrLess(value, AttrValue(o, key))}

\* with_left(p) for the comparison operators: the attribute is looked up
\* before the right value is cast.
Compared(exp, object_class, key, rhs, g, log) ==
  IF AttrKind(object_class, key) = "none"
  THEN Compiled("BadQuery", "none", {}, g, log)
  ELSE IF rhs.err # "" THEN Compiled(rhs.err, "none", {}, g, log)
  ELSE Compiled("", "pred",
                CompareRows(exp.op, object_class, key, rhs.value), g, log)

comparison(exp, object_class, g, log) ==
  Compared(exp, object_class, AttrNameMap(object_class, Lower(exp.left)),
           autocast(object_class, exp), g, log)

\* relevant(): j is the batch position (from 1) of the entry being compiled.
relevant(exp, object_class, query, j, g, log) ==
  LET prev == exp.object_name = "__previous__"
      i == IF prev /\ exp.ids # <<>> THEN exp.ids[1] ELSE 0
  IN IF prev /\ (exp.ids = <<>> \/ i >= Len(query))
     THEN Compiled("IndexError", "none", {}, g, log)
     ELSE IF prev /\ ~query[i + 1].has_ids
     THEN Compiled("KeyError", "none", {}, g, log)
     ELSE LET related_type == IF prev THEN query[i + 1].object_name
                              ELSE exp.object_name
              related_ids == IF prev THEN query[i + 1].ids ELSE exp.ids
          IN Compiled("", "pred",
                      get_ids_related_to(object_class, related_type,
                                         related_ids),
                      g,
                      Append(log, [entry |-> j, object_type |-> object_class,
                                   related_type |-> related_type,
                                   related_ids |-> related_ids,
                                   previous |-> IF prev THEN i ELSE -1]))

\* similar(): returns (does not raise) the exception of a class without
\* get_similar_objects_query.
similar(exp, object_class, g, log) ==
  IF exp.object_name \notin ObjectMap
  THEN Compiled("KeyError", "none", {}, g, log)
  ELSE IF ~HasSimilarity(exp.object_name)
  THEN Compiled("", "exc", {}, g, log)
  ELSE Compiled("", "pred", SimilarIds(exp.id) \cap Table(object_class),
                [set |-> TRUE, similar_class |-> exp.object_name,
                 id |-> exp.id, type |-> object_class],
                log)

\* text_search(): an or_ over no field puts no condition on the rows.
text_search(exp, object_class, fields, g, log) ==
  LET used == {f \in Range(fields) :
                 AttrKind(object_class, AttrNameMap(object_class, f)) = "column"}
  IN Compiled("", "pred",
              IF used = {} THEN Table(object_class)
              ELSE {o \in Table(object_class) :
                      \E f \in used :
                        Contains(AttrValue(o, AttrNameMap(object_class, f)),
                                 exp.text)},
              g, log)

\* and_(l, r) / or_(l, r) on compiled values: an exception object is no SQL
\* expression (ArgumentError), None is SQL NULL.
lift_bin(op, l, r) ==
  IF l.kind = "exc" \/ r.kind = "exc"
  THEN Compiled("ArgumentError", "none", {}, r.g, r.log)
  ELSE LET lrows == IF l.kind = "none" THEN {} ELSE l.rows
           rrows == IF r.kind = "none" THEN {} ELSE r.rows
       IN Compiled("", "pred",
                   IF op = "AND" THEN lrows \cap rrows ELSE lrows \cup rrows,
                   r.g, r.log)

BuiltRight(op, l, r) == IF r.err # "" THEN r ELSE lift_bin(op, l, r)

RECURSIVE _build_expression(_, _, _, _, _, _, _)
\* lift_bin: the right side is compiled after the left one, on the state the
\* left one left.
BuiltLeft(exp, object_class, fields, query, j, l) ==
  IF l.err # "" THEN l
  ELSE BuiltRight(exp.op, l,
                  _build_expression(exp.right, object_class, fields, query, j,
                                    l.g, l.log))

_build_expression(exp, object_class, fields, query, j, g, log) ==
  IF exp.op = "" THEN Compiled("", "none", {}, g, log)
  ELSE IF IsNode(exp)
  THEN BuiltLeft(exp, object_class, fields, query, j,
                 _build_expression(exp.left, object_class, fields, query, j,
                                   g, log))
  ELSE IF exp.op \in {"=", "!=", "~", "!~", "<", ">"}
  THEN comparison(exp, object_class, g, log)
  ELSE IF exp.op = "relevant"
  THEN relevant(exp, object_class, query, j, g, log)
  ELSE IF exp.op = "text_search"
  THEN text_search(exp, object_class, fields, g, log)
  ELSE IF exp.op = "similar" THEN similar(exp, object_class, g, log)
  ELSE Compiled("BadQuery", "none", {}, g, log)

\* --------------------------------------------------- _apply_order_by
RelationshipOrderBadQuery(kind) ==
  IF kind = "other" THEN "BadQuery" ELSE ""

\* The error join_and_order raises for a relationship to a model that is
\* neither Titled nor Person.
RelationshipOrder(kind) ==
  IF kind = "other" THEN "NotImplementedError" ELSE ""

\* join_and_order(clause): [err, by, key, desc]; `by` says what the rows are
\* ordered by.
join_and_order(clause, model, g) ==
  LET name == Lower(clause.name)
      key == AttrNameMap(model, name)
      kind == AttrKind(model, key)
      out(e, by) == [err |-> e, by |-> by, key |-> key, desc |-> clause.desc]
  IN IF name = "__similarity__"
     THEN IF g.set THEN out("", "similarity") ELSE out("BadQuery", "")
     ELSE IF kind = "none" THEN out("BadQuery", "")
     ELSE IF kind = "column" THEN out("", "column")
     ELSE out(RelationshipOrder(kind), kind)

\* The error of the first clause that raises one, "" if none does.
RECURSIVE OrderError(_, _, _)
OrderError(order_by, model, g) ==
  IF order_by = <<>> THEN ""
  ELSE LET c == join_and_order(Head(order_by), model, g) IN
       IF c.err # "" THEN c.err ELSE OrderError(Tail(order_by), model, g)

\* The value row o is ordered by under a clause; <<>> is SQL NULL, which
\* sorts first.
OrderValue(o, c, g) ==
  CASE c.by = "similarity" ->
         IF o \in SimilarIds(g.id) THEN <<1 + Weight(g.id, o)>> ELSE <<>>
    [] c.by = "column" -> AttrValue(o, c.key)
    [] c.by = "titled" -> AuditTitle(o)
    [] c.by = "person" ->
         IF ContactName(o) # <<>> THEN ContactName(o) ELSE ContactEmail(o)

\* Row a comes before row b under the clauses, the first clause deciding
\* first; rows equal under every clause come in storage (id) order.
RECURSIVE Before(_, _, _, _, _)
Before(a, b, order_by, model, g) ==
  IF order_by = <<>> THEN a < b
  ELSE LET c == join_and_order(Head(order_by), model, g)
           va == OrderValue(a, c, g)
           vb == OrderValue(b, c, g)
       IN IF va = vb THEN Before(a, b, Tail(order_by), model, g)
          ELSE IF c.desc THEN StrLess(vb, va) ELSE StrLess(va, vb)

\* query.order_by(*orders) executed: the rows in order.
Ordered(rows, order_by, model, g) ==
  [i \in 1..Cardinality(rows) |->
     CHOOSE o \in rows :
       Cardinality({p \in rows : Before(p, o, order_by, model, g)}) = i - 1]

\* ------------------------------------------------------ _apply_limit
\* objects[from_:to_] on a list, from_ and to_ integers or None.
SliceIndex(e, n, none) ==
  IF e.kind = "null" THEN none
  ELSE IF e.val < 0 THEN Max(0, n + e.val)
  ELSE Min(e.val, n)

SliceClosed(objects, from_, to_) ==
  Sub(objects, SliceIndex(from_, Len(objects), 0) + 1,
      Min(Len(objects), SliceIndex(to_, Len(objects), Len(objects)) + 1))

Slice(objects, from_, to_) ==
  Sub(objects, SliceIndex(from_, Len(objects), 0) + 1,
      SliceIndex(to_, Len(objects), Len(objects)))

\* _apply_limit(objects, limit): [err, objects].  is_list is FALSE for the
\* set() that _get_objects returns without a filter expression.
_apply_limit(objects, is_list, limit) ==
  IF ~limit.present \/ limit.elems = <<>>
  THEN [err |-> "", objects |-> objects]
  ELSE IF Len(limit.elems) # 2
            \/ ~is_list
            \/ \E i \in 1..2 : limit.elems[i].kind = "str"
  THEN [err |-> "BadQuery", objects |-> <<>>]
  ELSE [err |-> "", objects |-> Slice(objects, limit.elems[1], limit.elems[2])]

\* ------------------------------------------------------ _get_objects
PermittedToRead(object_query, o) == is_allowed_read_for(o)

\* The permission check the entry asks for.
Permitted(object_query, o) ==
  IF object_query.permissions = "update"
  THEN is_allowed_update_for(o)
  ELSE is_allowed_read_for(o)

\* What _get_objects gives: the error raised and the step that raised it
\* ("compile": _build_expression, "filter": query.filter, "order":
\* _apply_order_by), or the objects, a list or the empty set.
Fetched(err, stage, is_list, objs, g, log) ==
  [err |-> err, stage |-> stage, is_list |-> is_list, objs |-> objs,
   g |-> g, log |-> log]

\* The objects of the ordered query that pass the permission check.
Allowed(object_query, rows, g) ==
  FilterSeq(Ordered(rows, object_query.order_by, object_query.object_name, g),
            {o \in rows : Permitted(object_query, o)})

\* _get_objects once the expression is compiled (c): query.filter, then
\* _apply_order_by, then the permission check.
Filtered(object_query, c) ==
  IF c.err # "" THEN Fetched(c.err, "compile", FALSE, <<>>, c.g, c.log)
  ELSE IF c.kind = "exc"
  THEN Fetched("ArgumentError", "filter", FALSE, <<>>, c.g, c.log)
  ELSE IF OrderError(object_query.order_by, object_query.object_name, c.g) # ""
  THEN Fetched(OrderError(object_query.order_by, object_query.object_name,
                          c.g),
               "order", FALSE, <<>>, c.g, c.log)
  ELSE Fetched("", "", TRUE,
               Allowed(object_query,
                       IF c.kind = "none"
                       THEN Table(object_query.object_name) ELSE c.rows,
                       c.g),
               c.g, c.log)

\* _get_objects(object_query) for the entry at position j (from 1).
_get_objects(object_query, query, j, g, log) ==
  IF object_query.filters.kind # "expr"
  THEN Fetched("", "", FALSE, <<>>, g, log)
  ELSE IF object_query.object_name \notin ObjectMap
  THEN Fetched("KeyError", "compile", FALSE, <<>>, g, log)
  ELSE Filtered(object_query,
                _build_expression(object_query.filters.expression,
                                  object_query.object_name,
                                  object_query.fields, query, j, g, log))

\* ----------------------------------------------------------- get_ids
SetIdsUnlessEmpty(query, j, objects) ==
  IF objects = <<>> THEN query
  ELSE [query EXCEPT ![j].has_ids = TRUE, ![j].ids = objects]

\* object_query["ids"] = [o.id for o in objects]
SetIds(query, j, objects) ==
  [query EXCEPT ![j].has_ids = TRUE, ![j].ids = objects]

\* What the caller of get_ids is handed when an entry raises: nothing, the
\* exception propagates.
NotReturned == [returned |-> FALSE, batch |-> <<>>]
OnErrorPartial(query) == [returned |-> TRUE, batch |-> query]
OnError(query) == NotReturned

\* `return self.query`
Returned(query) == [returned |-> TRUE, batch |-> query]

\* QueryHelper(query): [err, query] once _clean_query (c) is through; the
\* attribute maps are built only if it raised nothing.
Constructed(c) ==
  [err |-> IF c.err # "" THEN c.err ELSE _set_attr_name_map(c.query),
   query |-> c.query]

\* One round of the loop of get_ids, the objects fetched (f) and limited (l):
\* [err, stage, objects, g, log]; stage "limit" is _apply_limit raising.
Resolved(f, l) ==
  [err |-> IF f.err # "" THEN f.err ELSE l.err,
   stage |-> IF f.err # "" THEN f.stage
             ELSE IF l.err # "" THEN "limit" ELSE "",
   objects |-> l.objects, g |-> f.g, log |-> f.log]

Limited(f, limit) == Resolved(f, _apply_limit(f.objs, f.is_list, limit))

ResolveEntry(query, j, g, log) ==
  Limited(_get_objects(query[j], query, j, g, log), query[j].limit)

\* ------------------------------------------------------------ state
VARIABLES
  input,    \* the batch as the caller built it
  query,    \* self.query: the caller's list, changed in place
  pc,       \* "new", "rejected" (the constructor raised), "ready",
            \* "done" (get_ids returned), "failed" (get_ids raised)
  idx,      \* position (from 1) of the entry get_ids handles next
  err,      \* the exception raised, "" if none
  stage,    \* the step that raised it
  g,        \* flask.g.similar_objects_query
  log,      \* the calls made to RelationshipHelper.get_ids_related_to
  result    \* what get_ids returned

vars == <<input, query, pc, idx, err, stage, g, log, result>>

InitWith(batch) ==
  /\ input = batch
  /\ query = batch
  /\ pc = "new"
  /\ idx = 1
  /\ err = ""
  /\ stage = ""
  /\ g = NoSimilar
  /\ log = <<>>
  /\ result = NotReturned

\* QueryHelper(query): sanitize the batch, then build the attribute maps.
Construct ==
  /\ pc = "new"
  /\ \E c \in {Constructed(_clean_query(query))} :
       /\ query' = c.query
       /\ err' = c.err
       /\ stage' = IF c.err = "" THEN "" ELSE "sanitize"
       /\ pc' = IF c.err = "" THEN "ready" ELSE "rejected"
  /\ UNCHANGED <<input, idx, g, log, result>>

\* One round of the loop of get_ids.
GetIdsStep ==
  /\ pc = "ready"
  /\ idx <= Len(query)
  /\ \E r \in {ResolveEntry(query, idx, g, log)} :
       /\ g' = r.g
       /\ log' = r.log
       /\ err' = r.err
       /\ stage' = r.stage
       /\ IF r.err = ""
          THEN /\ query' = SetIds(query, idx, r.objects)
               /\ idx' = idx + 1
               /\ pc' = pc
               /\ result' = result
          ELSE /\ pc' = "failed"
               /\ result' = OnError(query)
               /\ UNCHANGED <<query, idx>>
  /\ UNCHANGED input

\* The loop of get_ids is over: return self.query.
GetIdsReturn ==
  /\ pc = "ready"
  /\ idx > Len(query)
  /\ pc' = "done"
  /\ result' = Returned(query)
  /\ UNCHANGED <<input, query, idx, err, stage, g, log>>

Next == Construct \/ GetIdsStep \/ GetIdsReturn

\* ----------------------------------------------------------- inputs
\* Filter expressions the batches are built from.
AllRows == Filters(Leaf("", "", <<>>))
NotFirstTitle == Filters(Leaf("!=", "Title", Title(1)))
UnknownOp == Filters(Leaf("bogus", "title", Title(1)))
BySlug == Filters(Leaf("=", "Code", Slug(2)))

\* The batches of 1..MaxBatch entries over a set of entries.
RECURSIVE BatchesOfLen(_, _)
BatchesOfLen(entries, n) ==
  IF n = 0 THEN {<<>>}
  ELSE {Append(b, e) : b \in BatchesOfLen(entries, n - 1), e \in entries}

Batches(entries) == UNION {BatchesOfLen(entries, n) : n \in 1..MaxBatch}

\* Entries that differ in permissions, order, limit and filter.
PagingEntries ==
  {ObjectQuery("Program", p, o, l, f) :
     p \in {"", "update"},
     o \in {<<>>, <<Clause("Title", TRUE)>>},
     l \in {NoLimit, Limit(<<Num(1), Num(3)>>)},
     f \in {AllRows, NotFirstTitle}}
  \cup
  {ObjectQuery("Program", p, <<Clause("title", FALSE)>>,
               Limit(<<Num(0), Num(2)>>), AllRows) :
     p \in {"read", "delete"}}
  \cup
  {ObjectQuery("Program", "", <<>>, l, AllRows) :
     l \in {Limit(<<>>), Limit(<<Text, Text>>), Limit(<<Num(1)>>),
            Limit(<<Null, Num(-1)>>)}}
  \cup
  {ObjectQuery(n, "", <<>>, l, f) :
     n \in {"Program", "TaskGroupTask"},
     l \in {NoLimit, Limit(<<Num(0), Num(2)>>)},
     f \in {NoFilters, EmptyFilters}}
  \cup
  {ObjectQuery("Program", "", <<>>, NoLimit, UnknownOp)}

Init == \E batch \in Batches(PagingEntries) : InitWith(batch)

Spec == Init /\ [][Next]_vars

\* Entries that differ in the relevant and similar leaves of their filters,
\* in the ids they carry before get_ids runs, and in their order_by.
Preset(object_query, ids) ==
  [object_query EXCEPT !.has_ids = TRUE, !.ids = ids]

Previous(i) == Filters(RelevantLeaf("__previous__", <<<<i>>>>))
SimilarTo(object_name) == Filters(SimilarLeaf(object_name, 1))
BySimilarity == <<Clause("__similarity__", FALSE)>>

RelevantEntries ==
  {ObjectQuery("Program", "", <<>>, NoLimit, f) :
     f \in {NotFirstTitle, Filters(RelevantLeaf("Assessment", <<<<1>>>>)),
            Previous(0), Previous(1)}}
  \cup
  {Preset(ObjectQuery("Assessment", "", <<>>, NoLimit, NotFirstTitle), <<2>>)}

SimilarEntries ==
  {ObjectQuery("Assessment", "", o, NoLimit, f) :
     o \in {<<>>, BySimilarity},
     f \in {SimilarTo("Assessment"), SimilarTo("Program")}}
  \cup
  {ObjectQuery("Assessment", "", BySimilarity, NoLimit, f) :
     f \in {NoFilters, BySlug,
            Filters(Node("AND", NotFirstTitle.expression,
                         SimilarLeaf("Assessment", 2)))}}

OrderEntries ==
  {ObjectQuery("Program", "", o, NoLimit, AllRows) :
     o \in {<<Clause("object_people", FALSE)>>,
            <<Clause("contact", FALSE)>>,
            <<Clause("audit", TRUE)>>,
            <<Clause("nosuch", FALSE)>>,
            <<Clause("title", FALSE), Clause("object_people", TRUE)>>,
            <<Clause("nosuch", FALSE), Clause("object_people", FALSE)>>}}
  \cup
  {ObjectQuery("Program", "", <<Clause("object_people", FALSE)>>, NoLimit, f) :
     f \in {NoFilters, UnknownOp}}

InitRel ==
  \E batch \in Batches(RelevantEntries \cup SimilarEntries \cup OrderEntries) :
    InitWith(batch)

SpecRel == InitRel /\ [][Next]_vars

\* Date literals: "3/15/2021", "3/15", "15", "3/15/2021/1", "2/30/2020",
\* "02/30/2020" and "a/b/c".
MonthDayYear == <<3, Slash, 1, 5, Slash, 2, 0, 2, 1>>
MonthDay == <<3, Slash, 1, 5>>
DayOnly == <<1, 5>>
FourParts == <<3, Slash, 1, 5, Slash, 2, 0, 2, 1, Slash, 1>>
Feb30 == <<2, Slash, 3, 0, Slash, 2, 0, 2, 0>>
Feb30Padded == <<0, 2, Slash, 3, 0, Slash, 2, 0, 2, 0>>
NotNumbers == <<21, Slash, 22, Slash, 23>>

DateLiterals ==
  {MonthDayYear, MonthDay, DayOnly, FourParts, Feb30, Feb30Padded, NotNumbers}

\* A leaf with a raw "ids" list.
WithIds(exp, ids) == [exp EXCEPT !.ids = ids]
ByTitle == Leaf("=", "title", Title(2))

\* Entries on the "start" and "end" fields the sanitizer expands for
\* TaskGroupTask, alone and under AND/OR.
TaskDateEntries ==
  {ObjectQuery("TaskGroupTask", "", <<>>, NoLimit,
               Filters(Leaf("=", "start", r))) : r \in DateLiterals}
  \cup
  {ObjectQuery("TaskGroupTask", "", <<>>, NoLimit,
               Filters(Leaf("<", "end", r))) :
     r \in {MonthDayYear, MonthDay, FourParts}}
  \cup
  {ObjectQuery("Program", "", <<>>, NoLimit, Filters(Leaf("=", "start", r))) :
     r \in {MonthDayYear, FourParts}}
  \cup
  {ObjectQuery("TaskGroupTask", "", <<>>, NoLimit, Filters(e)) :
     e \in {Node("AND", RelevantLeaf("Program", <<<<1>>>>),
                 Leaf("=", "start", DayOnly)),
            Node("AND", RelevantLeaf("Program", <<<<1>>>>), ByTitle),
            Node("OR", Leaf(">", "start", MonthDay), ByTitle),
            Node("AND", ByTitle, Leaf("=", "end", FourParts)),
            ByTitle}}

\* Entries that compare the date columns, which autocast parses.
DateColumnEntries ==
  {ObjectQuery("TaskGroupTask", "", <<>>, NoLimit,
               Filters(Leaf(op, "start_date", r))) :
     op \in {"=", "!=", "<", ">"}, r \in {Feb30}}
  \cup
  {ObjectQuery("TaskGroupTask", "", <<>>, NoLimit,
               Filters(Leaf(op, "start_date", Feb30Padded))) :
     op \in {"=", ">"}}
  \cup
  {ObjectQuery("TaskGroupTask", "", <<>>, NoLimit,
               Filters(Leaf("=", "end_date", MonthDayYear)))}
  \cup
  {ObjectQuery("Program", "", <<>>, NoLimit,
               Filters(Leaf("=", "start_date", Feb30)))}

\* Entries whose filter dicts carry raw ids: numbers as strings, other
\* strings, nulls; and slugs.
IdEntries ==
  {ObjectQuery("Program", "", <<>>, NoLimit,
               Filters(RelevantLeaf("Assessment", ids))) :
     ids \in {<<<<1>>>>, <<<<40>>>>, <<None>>, <<<<2>>, None>>}}
  \cup
  {ObjectQuery("Program", "", <<>>, NoLimit, Filters(e)) :
     e \in {WithIds(ByTitle, <<<<40>>>>),
            WithIds(SimilarLeaf("Assessment", 1), <<None>>),
            Node("AND", ByTitle,
                 Node("OR", RelevantLeaf("Assessment", <<<<1>>, <<40>>>>),
                      ByTitle)),
            [RelevantLeaf("Assessment", <<<<3>>>>)
               EXCEPT !.slugs = <<Slug(2), Slug(1)>>]}}

InitSan ==
  \E batch \in Batches(TaskDateEntries \cup DateColumnEntries \cup IdEntries) :
    InitWith(batch)

SpecSan == InitSan /\ [][Next]_vars

\* ------------------------------------------------------------ claims
\* The entry is the one the caller wrote, but for its filters (sanitized in
\* place) and its ids.
SameQuery(a, b) ==
  /\ a.object_name = b.object_name
  /\ a.permissions = b.permissions
  /\ a.order_by = b.order_by
  /\ a.limit = b.limit
  /\ a.fields = b.fields
  /\ a.filters.kind = b.filters.kind

\* C1: a batch get_ids returns has the entries of the input batch, as many
\* and in the same order, each with its ids set (possibly to the empty list).
C1_ResolvePreservesBatch ==
  result.returned =>
    /\ Len(result.batch) = Len(input)
    /\ \A k \in 1..Len(input) :
         /\ SameQuery(result.batch[k], input[k])
         /\ result.batch[k].has_ids

C1_Witness ==
  /\ result.returned
  /\ Len(result.batch) >= 2
  /\ result.batch[1].ids = <<>>
  /\ result.batch[2].ids # <<>>
  /\ result.batch[1].limit # result.batch[2].limit

\* The entry has no filter expression: no "filters", or no "expression" in
\* it.
NoExpression(object_query) == object_query.filters.kind # "expr"

\* C2 (as claimed): an entry without a filter expression never makes the
\* constructor or get_ids raise, whatever its other fields are, and its ids
\* are the empty list once it is resolved.
C2_NoFilterYieldsEmpty ==
  /\ (\A k \in 1..Len(input) : NoExpression(input[k])) => pc # "rejected"
  /\ \A k \in 1..Len(input) :
       NoExpression(input[k]) =>
         /\ ~(pc = "failed" /\ idx = k)
         /\ (query[k].has_ids => query[k].ids = <<>>)

\* C3: no id of a resolved entry belongs to an object the permission check
\* of the entry's mode denies: is_allowed_update_for for "update",
\* is_allowed_read_for for any other or no mode; under every order and limit.
C3_OnlyPermittedIds ==
  \A k \in 1..Len(query) :
    query[k].has_ids =>
      \A i \in 1..Len(query[k].ids) :
        IF query[k].permissions = "update"
        THEN is_allowed_update_for(query[k].ids[i])
        ELSE is_allowed_read_for(query[k].ids[i])

C3_Witness ==
  \E k \in 1..Len(query) :
    /\ query[k].has_ids
    /\ query[k].permissions = "update"
    /\ query[k].order_by # <<>>
    /\ query[k].limit.present
    /\ query[k].ids # <<>>
    /\ \E o \in Table(query[k].object_name) :
         is_allowed_read_for(o) /\ ~is_allowed_update_for(o)

\* The limit is [from, to], two numbers that are not negative.
IsPage(limit) ==
  /\ limit.present
  /\ Len(limit.elems) = 2
  /\ \A i \in 1..2 : limit.elems[i].kind = "int" /\ limit.elems[i].val >= 0

\* The objects of entry k that matched its filter and passed its permission
\* check, in the order asked for, before any limit (the entries of Spec
\* use neither flask.g nor earlier entries).
Authorized(k) == _get_objects(query[k], query, k, NoSimilar, <<>>).objs

\* C4: with a limit [from, to], the ids of a resolved entry are the elements
\* at the zero-based positions from .. to - 1 of the sorted list of objects
\* that matched and passed the permission check, in that order.
C4_PageOfAuthorized ==
  \A k \in 1..Len(query) :
    (query[k].has_ids /\ IsPage(query[k].limit) /\ ~NoExpression(query[k])) =>
      LET from_ == query[k].limit.elems[1].val
          to_ == query[k].limit.elems[2].val
          full == Authorized(k)
      IN /\ Len(query[k].ids) = Max(0, Min(to_, Len(full)) - from_)
         /\ \A i \in 1..Len(query[k].ids) : query[k].ids[i] = full[from_ + i]
         /\ \A i \in 1..Len(full) :
              IF query[k].permissions = "update"
              THEN is_allowed_update_for(full[i])
              ELSE is_allowed_read_for(full[i])
         /\ \A i \in 1..(Len(full) - 1) :
              Before(full[i], full[i + 1], query[k].order_by,
                     query[k].object_name, NoSimilar)

\* A denied object comes, in the order asked for, before the first object of
\* the page.
C4_Witness ==
  \E k \in 1..Len(query) :
    /\ query[k].has_ids
    /\ query[k].limit = Limit(<<Num(1), Num(3)>>)
    /\ query[k].order_by # <<>>
    /\ Len(query[k].ids) = 2
    /\ \E o \in Table(query[k].object_name) :
         /\ ~is_allowed_read_for(o)
         /\ Before(o, query[k].ids[1], query[k].order_by,
                   query[k].object_name, NoSimilar)

\* The limit is no pair of numbers.
Malformed(limit) ==
  /\ limit.present
  /\ \/ Len(limit.elems) # 2
     \/ \E i \in 1..Len(limit.elems) : limit.elems[i].kind # "int"

\* C5 (as claimed): an entry with a malformed limit is never resolved: it
\* makes get_ids raise BadQuery.
C5_MalformedLimitRejected ==
  \A k \in 1..Len(input) :
    Malformed(input[k].limit) =>
      /\ ~query[k].has_ids
      /\ (pc = "failed" /\ idx = k => err = "BadQuery" /\ stage = "limit")

\* C8: when the constructor or an entry of get_ids raises, the resolution is
\* over with that error and get_ids hands no batch to its caller.
C8_FailFast ==
  /\ err # "" => pc \in {"rejected", "failed"} /\ ~result.returned
  /\ pc \in {"rejected", "failed"} => err # "" /\ ~result.returned
  /\ result.returned => \A k \in 1..Len(result.batch) : result.batch[k].has_ids

C8_Witness ==
  /\ pc = "failed"
  /\ idx = 2
  /\ query[1].has_ids
  /\ ~query[2].has_ids
  /\ ~result.returned

\* C6 (as claimed): every lookup a `relevant` leaf of entry j makes for
\* "__previous__" and first id i is for an entry i before j that get_ids
\* has resolved, with the object type of that entry and the ids get_ids
\* computed for it.  (Entries count from 1 here: entry i is query[i + 1].)
C6_PreviousIsResolved ==
  \A n \in 1..Len(log) :
    log[n].previous >= 0 =>
      /\ log[n].previous + 1 < log[n].entry
      /\ log[n].related_type = input[log[n].previous + 1].object_name
      /\ log[n].related_ids = query[log[n].previous + 1].ids

\* The filter expression has a `similar` leaf.
RECURSIVE HasSimilarLeaf(_)
HasSimilarLeaf(exp) ==
  IF IsNode(exp) THEN HasSimilarLeaf(exp.left) \/ HasSimilarLeaf(exp.right)
  ELSE exp.op = "similar"

OrdersBySimilarity(object_query) ==
  \E i \in 1..Len(object_query.order_by) :
    Lower(object_query.order_by[i].name) = "__similarity__"

\* C7 (as claimed): an entry ordered by __similarity__ whose own filter has
\* no `similar` leaf is never resolved: get_ids raises BadQuery on it,
\* whatever the entries before it did.
C7_SimilarityNeedsOwnFilter ==
  \A k \in 1..Len(input) :
    (/\ OrdersBySimilarity(input[k])
     /\ input[k].filters.kind = "expr"
     /\ ~HasSimilarLeaf(input[k].filters.expression)) =>
      /\ ~(pc \in {"ready", "done"} /\ idx > k)
      /\ (pc = "failed" /\ idx = k => err = "BadQuery")

\* The filter of the entry is a `similar` leaf for a class without
\* get_similar_objects_query.
SimilarWithoutContract(object_query) ==
  /\ object_query.filters.kind = "expr"
  /\ object_query.filters.expression.op = "similar"
  /\ object_query.filters.expression.object_name \in ObjectMap
  /\ ~HasSimilarity(object_query.filters.expression.object_name)

\* C9 (as claimed): compiling a `similar` leaf for a class without the
\* similarity contract raises BadQuery: the entry is not resolved, and what
\* ends get_ids is BadQuery raised while compiling.
C9_NoContractRaisesBadQuery ==
  \A k \in 1..Len(input) :
    SimilarWithoutContract(input[k]) =>
      /\ ~(pc \in {"ready", "done"} /\ idx > k)
      /\ (pc = "failed" /\ idx = k => err = "BadQuery" /\ stage = "compile")

\* The order_by clause resolves without an error.
ClauseResolves(object_query, i) ==
  IF Lower(object_query.order_by[i].name) = "__similarity__" THEN g.set
  ELSE AttrKind(object_query.object_name,
                AttrNameMap(object_query.object_name,
                            Lower(object_query.order_by[i].name)))
         \in {"column", "titled", "person"}

\* The first order_by clause of the entry that does not resolve names a
\* relationship to a model that is neither Titled nor Person.
FirstBadClauseIsOtherRelationship(object_query) ==
  \E i \in 1..Len(object_query.order_by) :
    /\ AttrKind(object_query.object_name,
                AttrNameMap(object_query.object_name,
                            Lower(object_query.order_by[i].name))) = "other"
    /\ \A h \in 1..(i - 1) : ClauseResolves(object_query, h)

\* get_ids raised while ordering entry idx, on such a clause.
RaisedOnOtherRelationship ==
  /\ pc = "failed"
  /\ stage = "order"
  /\ FirstBadClauseIsOtherRelationship(query[idx])

\* C10 (as claimed): ordering by a relationship whose target is neither
\* Titled nor Person fails with BadQuery.
C10_OtherRelationshipBadQuery ==
  RaisedOnOtherRelationship => err = "BadQuery"

\* C10 (amended): when get_ids reaches such a clause (the filter expression
\* of the entry compiled and no earlier clause raised), it fails with
\* NotImplementedError, and every entry with such a first failing clause
\* that gets as far as ordering fails so.
C10_OtherRelationshipNotImplemented ==
  /\ RaisedOnOtherRelationship => err = "NotImplementedError"
  /\ (pc = "failed" /\ err = "NotImplementedError") =>
       stage = "order" /\ FirstBadClauseIsOtherRelationship(query[idx])
  /\ \A k \in 1..Len(query) :
       (/\ pc \in {"ready", "done"}
        /\ idx > k
        /\ ~NoExpression(query[k])) =>
         ~\E i \in 1..Len(query[k].order_by) :
            AttrKind(query[k].object_name,
                     AttrNameMap(query[k].object_name,
                                 Lower(query[k].order_by[i].name))) = "other"

C10_Witness ==
  /\ RaisedOnOtherRelationship
  /\ err = "NotImplementedError"
  /\ Len(query[idx].order_by) = 2
  /\ idx = 2


\* The expression without the ids of its dicts (which _clean_filters sets).
RECURSIVE StripIds(_)
StripIds(exp) ==
  IF exp.op = "" THEN exp
  ELSE IF IsNode(exp)
  THEN [exp EXCEPT !.ids = <<>>, !.left = StripIds(exp.left),
                   !.right = StripIds(exp.right)]
  ELSE [exp EXCEPT !.ids = <<>>]

\* The leaves of an expression, at any depth under AND/OR.
RECURSIVE Leaves(_)
Leaves(exp) ==
  IF exp.op = "" THEN {}
  ELSE IF IsNode(exp) THEN Leaves(exp.left) \cup Leaves(exp.right)
  ELSE {exp}

\* A comparison leaf on the "start" or "end" field.
OnTaskDate(leaf) ==
  /\ leaf.op \in {"=", "!=", "~", "!~", "<", ">"}
  /\ leaf.left \in {"start", "end"}

\* The leaf as the rewriting rule gives it for 1, 2 and 3 parts.
RewrittenLeaf(leaf, parts) ==
  LET field == leaf.left IN
  CASE Len(parts) = 3 ->
         [leaf EXCEPT
            !.left = IF field = "start" THEN "start_date" ELSE "end_date",
            !.right = <<IntOf(parts[3]), IntOf(parts[1]), IntOf(parts[2])>>,
            !.right_is_date = TRUE]
    [] Len(parts) = 2 ->
         Node("AND",
              Leaf(leaf.op,
                   IF field = "start" THEN "relative_start_month"
                   ELSE "relative_end_month", parts[1]),
              Leaf(leaf.op,
                   IF field = "start" THEN "relative_start_day"
                   ELSE "relative_end_day", parts[2]))
    [] Len(parts) = 1 ->
         [leaf EXCEPT !.left = IF field = "start" THEN "relative_start_day"
                               ELSE "relative_end_day"]
    [] OTHER -> leaf

RECURSIVE RewrittenExpression(_)
RewrittenExpression(exp) ==
  IF exp.op = "" THEN exp
  ELSE IF IsNode(exp)
  THEN [exp EXCEPT !.left = RewrittenExpression(exp.left),
                   !.right = RewrittenExpression(exp.right)]
  ELSE IF OnTaskDate(exp) THEN RewrittenLeaf(exp, Split(exp.right))
  ELSE exp

\* The filter expression the rule gives for an entry.
RewrittenFilter(object_query) ==
  IF object_query.object_name = "TaskGroupTask"
  THEN RewrittenExpression(object_query.filters.expression)
  ELSE object_query.filters.expression

\* The entry has a start/end leaf of more than three parts.
OtherPartCount(object_query) ==
  /\ object_query.object_name = "TaskGroupTask"
  /\ \E leaf \in Leaves(object_query.filters.expression) :
       OnTaskDate(leaf) /\ Len(Split(leaf.right)) > 3

\* Entries the rule says nothing on: a three-part value that is no date, or
\* ids that are not numbers.
NoDate(parts) ==
  \/ \E i \in 1..3 : ~IsNumeric(parts[i])
  \/ ~IsDate(IntOf(parts[3]), IntOf(parts[1]), IntOf(parts[2]))

OutsideRule(object_query) ==
  \/ /\ object_query.object_name = "TaskGroupTask"
     /\ \E leaf \in Leaves(object_query.filters.expression) :
          /\ OnTaskDate(leaf)
          /\ Len(Split(leaf.right)) = 3
          /\ NoDate(Split(leaf.right))
  \/ \E leaf \in Leaves(object_query.filters.expression) :
       \E i \in 1..Len(leaf.ids) : ~IsNumeric(leaf.ids[i])

\* C11: once the constructor has run on a batch of entries with dates and
\* numeric ids, either a TaskGroupTask entry has a start/end leaf of more
\* than three parts and the constructor raised BadQuery, or it raised nothing
\* and every entry has the filter the rewriting rule gives: start/end leaves
\* of TaskGroupTask entries rewritten by their number of parts, every other
\* leaf and the entries of other object types unchanged.
C11_TaskDatesRewritten ==
  (pc # "new" /\ \A k \in 1..Len(input) : ~OutsideRule(input[k])) =>
    IF \E k \in 1..Len(input) : OtherPartCount(input[k])
    THEN pc = "rejected" /\ err = "BadQuery"
    ELSE /\ pc # "rejected"
         /\ \A k \in 1..Len(input) :
              StripIds(query[k].filters.expression)
                = StripIds(RewrittenFilter(input[k]))


\* The entry is one comparison (=, !=, <, >) of a date column of
\* TaskGroupTask with the literal.
ComparesDateColumn(object_query, literal) ==
  /\ object_query.object_name = "TaskGroupTask"
  /\ object_query.filters.kind = "expr"
  /\ object_query.filters.expression.op \in {"=", "!=", "<", ">"}
  /\ object_query.filters.expression.left \in {"start_date", "end_date"}
  /\ object_query.filters.expression.right = literal

\* The entry is one comparison of the start or end field of a TaskGroupTask
\* with the literal.
ComparesTaskDate(object_query, literal) ==
  /\ object_query.object_name = "TaskGroupTask"
  /\ object_query.filters.kind = "expr"
  /\ object_query.filters.expression.op \in {"=", "!=", "<", ">"}
  /\ object_query.filters.expression.left \in {"start", "end"}
  /\ object_query.filters.expression.right = literal

\* get_ids raised on entry k; get_ids has handled entry k (it raised on it or
\* went past it).
Compiling(k) == pc = "failed" /\ idx = k
Reached(k) == Compiling(k) \/ (pc \in {"ready", "failed", "done"} /\ idx > k)

\* C12 as stated: a date comparison with "02/30/2020" fails with BadQuery,
\* and one with "2/30/2020" fails with an error that is not BadQuery.
C12_PaddedBadQueryUnpaddedNot ==
  \A k \in 1..Len(input) :
    /\ (Reached(k) /\ ComparesDateColumn(input[k], Feb30Padded)) =>
         (Compiling(k) /\ err = "BadQuery")
    /\ (Reached(k) /\ ComparesDateColumn(input[k], Feb30)) =>
         (Compiling(k) /\ err \notin {"", "BadQuery"})

\* C12, amended: both literals stand for month 2, day 30, year 2020 and fail
\* alike.  A comparison of a date column fails with BadQuery when get_ids
\* compiles it; the start or end field of a TaskGroupTask, which the
\* constructor expands, makes the constructor fail with the ValueError of the
\* date constructor.
C12_BothLiteralsFailAlike ==
  \A literal \in {Feb30, Feb30Padded} :
    /\ \A k \in 1..Len(input) :
         (Reached(k) /\ ComparesDateColumn(input[k], literal)) =>
           (Compiling(k) /\ err = "BadQuery" /\ stage = "compile")
    /\ (pc # "new" /\ ComparesTaskDate(input[1], literal)) =>
         (pc = "rejected" /\ err = "ValueError")

C12_Witness ==
  /\ Compiling(2)
  /\ input[2].object_name = "TaskGroupTask"
  /\ ComparesDateColumn(input[2], Feb30)
  /\ input[2].filters.expression.op = "<"
  /\ query[1].has_ids
  /\ err = "BadQuery"


\* The dicts of an expression: its leaves and its AND/OR nodes.
RECURSIVE Dicts(_)
Dicts(exp) ==
  IF exp.op = "" THEN {}
  ELSE IF IsNode(exp) THEN {exp} \cup Dicts(exp.left) \cup Dicts(exp.right)
  ELSE {exp}

\* The dicts of the batch with an id that is no number, on a "relevant"
\* dict and on any other.
HasBadId(exp) == \E i \in 1..Len(exp.ids) : ~IsNumeric(exp.ids[i])

BadRelevant(batch) ==
  UNION {{d \in Dicts(batch[k].filters.expression) :
            HasBadId(d) /\ d.op = "relevant"} : k \in 1..Len(batch)}

BadOther(batch) ==
  UNION {{d \in Dicts(batch[k].filters.expression) :
            HasBadId(d) /\ d.op # "relevant"} : k \in 1..Len(batch)}

\* No entry of the batch is a TaskGroupTask on "start" or "end" (which the
\* constructor may fail on for its dates).
NoTaskDates(batch) ==
  \A k \in 1..Len(batch) :
    \/ batch[k].object_name # "TaskGroupTask"
    \/ \A leaf \in Leaves(batch[k].filters.expression) :
         leaf.left \notin {"start", "end"}

\* C13: once the constructor has run, either it raised nothing and the ids
\* of every filter dict are integers, or it raised and no entry was resolved;
\* it raised BadQuery if the ids that are no numbers are all on "relevant"
\* dicts, and the coercion error itself if they are all on other dicts.
C13_IntegerIdsOrRejected ==
  pc # "new" =>
    /\ pc # "rejected" =>
         \A k \in 1..Len(query) :
           \A d \in Dicts(query[k].filters.expression) :
             \A i \in 1..Len(d.ids) : d.ids[i] \in Int
    /\ (BadRelevant(input) \cup BadOther(input) # {}) =>
         /\ pc = "rejected"
         /\ ~result.returned
         /\ \A k \in 1..Len(query) : ~query[k].has_ids
    /\ (NoTaskDates(input) /\ BadRelevant(input) # {} /\ BadOther(input) = {})
         => err = "BadQuery"
    /\ (NoTaskDates(input) /\ BadRelevant(input) = {} /\ BadOther(input) # {})
         => err \in {"ValueError", "TypeError"}

=============================================================================
